---- MODULE Spec2Model ----
(***************************************************************************)
(* Model of the hyperkit machine driver                                    *)
(* (pkg/minikube/drivers/hyperkit/driver.go).                              *)
(*                                                                         *)
(* State: the machine store (disk image, boot artifacts, the hyperkit.json *)
(* state file), the OS process table, the signals delivered to the         *)
(* hypervisor, and the driver's IPAddress field.  Every driver method is   *)
(* one action; the hypervisor and the OS are environment actions.  The     *)
(* variable last records what the most recent driver call did and          *)
(* returned, so that statements about a call are state predicates.         *)
(***************************************************************************)
EXTENDS Integers, Sequences, FiniteSets, TLC

\* ------------------------------------------------------------------ bounds
\* Process identifiers the OS hands out are 1..MaxPid.
MaxPid == 2
\* Network addresses the lease table can hold are 1..MaxAddr; 0 is "".
MaxAddr == 2
\* The lease of a launched VM appears at one of the first two polls or at
\* one of the last two up to poll number MaxHit.
MaxHit == 31

Pids == 1..MaxPid
Addrs == 1..MaxAddr
Hits == {1, 2, MaxHit - 1, MaxHit}

\* ------------------------------------------------------- program constants
\* Mutant: one attempt short.
StartAttempts_off == 30 - 1
\* commonutil.RetryAfter(30, getIP, 2*time.Second)
StartAttempts == 30
\* fmt.Sprintf("tcp://%s:2376", ip)
DockerPort == 2376

VARIABLES
    stateFile,   \* <store>/hyperkit.json: [kind, pid]
    procs,       \* OS process table: pid -> "none" | "hyperkit" | "foreign"
    pending,     \* pids of hypervisors with a delivered SIGTERM/SIGKILL
    nextPid,     \* next identifier the OS hands out
    IPAddress,   \* BaseDriver.IPAddress (0 is the empty string)
    diskExists,  \* <store>/<machine>.rawdisk is present
    permsFixed,  \* fixPermissions completed on the store
    diskCreated, \* number of completed createDiskImage calls
    sshKey,      \* the SSH key pair is in the store
    iso,         \* boot2docker.iso is in the store
    artifacts,   \* how many of bzimage, initrd, isolinux.cfg are extracted
    last,        \* record of the most recent driver call
    scen         \* position in the end-to-end scenario (0 = not in it)

vars == <<stateFile, procs, pending, nextPid, IPAddress, diskExists,
          permsFixed, diskCreated, sshKey, iso, artifacts, last, scen>>

store == <<diskExists, permsFixed, diskCreated, sshKey, iso, artifacts>>

\* ----------------------------------------------------------- the OS layer
NoFile == [kind |-> "absent", pid |-> 0]
BadFile == [kind |-> "unreadable", pid |-> 0]

\* Mutant: the launch leaves a state file that does not decode.
PidFile_unreadable(p) == [kind |-> "unreadable", pid |-> 0]

\* The state file the launch of process p leaves.
PidFile(p) == [kind |-> "ok", pid |-> p]

\* syscall kill(pid, sig): the errno for the process table pt.
kill(pid, pt) ==
    CASE pt[pid] = "none" -> "ESRCH"
      [] pt[pid] = "foreign" -> "EPERM"
      [] OTHER -> "nil"

\* os.FindProcess: on Unix it always succeeds, whether or not the process
\* exists (the driver builds for darwin only).
FindProcess(pid) == [pid |-> pid, err |-> "nil"]

\* os.Process.Signal: a Process whose Pid is 0 is "not initialized" and is
\* rejected before any system call; otherwise the result of kill(2).
ProcessSignal(p, pt) ==
    IF p.pid = 0
    THEN [err |-> "uninit", syscall |-> FALSE]
    ELSE [err |-> kill(p.pid, pt), syscall |-> TRUE]

\* ------------------------------------------------------------ pure helpers
\* Mutant: the state file is never read.
getPid_zero(file) == 0

\* getPid: 0 when the file cannot be opened or decoded, else config.Pid.
getPid(file) == IF file.kind = "ok" THEN file.pid ELSE 0

\* Mutant: the probe's result is ignored.
GetStateOf_alwaysRunning(file, pt) ==
    LET pid == getPid(file)
    IN  IF pid = 0 THEN [st |-> "Stopped", err |-> "nil"]
        ELSE [st |-> "Running", err |-> "nil"]

\* GetState: what the method returns for a state file and a process table.
GetStateOf(file, pt) ==
    LET pid == getPid(file)
        p == FindProcess(pid)
    IN  IF pid = 0 THEN [st |-> "Stopped", err |-> "nil"]
        ELSE IF p.err # "nil" THEN [st |-> "Error", err |-> p.err]
        ELSE IF ProcessSignal(p, pt).err # "nil"
             THEN [st |-> "Stopped", err |-> "nil"]
        ELSE [st |-> "Running", err |-> "nil"]

\* sendSignal: the error returned, the kill(2) calls made, and the pid the
\* signal was delivered to (0 when it was delivered to nobody).
sendSignal(s, file, pt) ==
    LET pid == getPid(file)
        proc == FindProcess(pid)
        r == ProcessSignal(proc, pt)
    IN  IF proc.err # "nil"
        THEN [err |-> proc.err, kills |-> <<>>, to |-> 0]
        ELSE [err |-> r.err,
              kills |-> IF r.syscall THEN << <<pid, s>> >> ELSE <<>>,
              to |-> IF r.err = "nil" THEN pid ELSE 0]

NoURL == [scheme |-> "", host |-> 0, port |-> 0]

\* BaseDriver.GetIP: fails when IPAddress is empty.
GetIP(ip) == IF ip = 0 THEN [ip |-> 0, err |-> "unset"] ELSE [ip |-> ip, err |-> "nil"]

\* Mutant: the error of GetIP is dropped.
GetURLOf_ignoreErr(addr) ==
    [url |-> [scheme |-> "tcp", host |-> GetIP(addr).ip, port |-> DockerPort],
     err |-> "nil"]

\* GetURL: "tcp://<ip>:2376", or "" and the error of GetIP.
GetURLOf(addr) ==
    LET r == GetIP(addr)
    IN  IF r.err # "nil" THEN [url |-> NoURL, err |-> r.err]
        ELSE [url |-> [scheme |-> "tcp", host |-> r.ip, port |-> DockerPort],
              err |-> "nil"]

\* Mutant: the host name goes through GetIP and fails when it is empty.
GetSSHHostnameOf_viaGetIP(addr) ==
    [host |-> GetIP(addr).ip, err |-> GetIP(addr).err]

\* GetSSHHostname: the stored address as it is, and no error.
GetSSHHostnameOf(addr) == [host |-> addr, err |-> "nil"]

\* What the state file's identifier names when a call begins.
Named(file, pt) == IF getPid(file) = 0 THEN "nofile" ELSE pt[getPid(file)]

\* ------------------------------------------------------- record of a call
Blank ==
    [op |-> "none", ret |-> "nil", st |-> "-", stErr |-> "nil",
     url |-> NoURL, host |-> 0, kills |-> <<>>, stopRan |-> FALSE,
     startRan |-> FALSE, diskCreate |-> FALSE, permFix |-> FALSE,
     launches |-> 0, launchedPid |-> 0, lookups |-> 0, waits |-> 0,
     step |-> "-", preFile |-> NoFile, preNamed |-> "nofile", preIP |-> 0,
     preDisk |-> FALSE, raced |-> FALSE, stopErr |-> "-", startErr |-> "-",
     hit |-> 0, addr |-> 0, prev |-> "-", calls |-> <<>>, cfault |-> "-",
     fault |-> "-"]

\* A call that follows a Start whose address lookup gave up notes whether
\* the hypervisor that Start launched is alive.
Prev ==
    IF last.step # "lookup" THEN "-"
    ELSE IF procs[last.launchedPid] = "hyperkit" THEN "noip-alive"
    ELSE "noip-exited"

Call(name) == [Blank EXCEPT !.op = name, !.prev = Prev]

\* The call reads the state file, the stored address, the disk image.
ReadsFile(rec) ==
    [rec EXCEPT !.preFile = stateFile, !.preNamed = Named(stateFile, procs)]
ReadsIP(rec) == [rec EXCEPT !.preIP = IPAddress]
ReadsDisk(rec) == [rec EXCEPT !.preDisk = diskExists]

Init ==
    /\ stateFile \in {NoFile, BadFile}
    /\ procs = [p \in Pids |-> "none"]
    /\ pending = {}
    /\ nextPid = 1
    /\ IPAddress = 0
    /\ diskExists = FALSE
    /\ permsFixed = FALSE
    /\ diskCreated = 0
    /\ sshKey = FALSE
    /\ iso = FALSE
    /\ artifacts = 0
    /\ last = Blank
    /\ scen = 0

\* ------------------------------------------------------------ environment
\* The hypervisor acts on a delivered SIGTERM/SIGKILL and exits.
HypervisorActsOnSignal ==
    \E p \in pending :
        /\ procs[p] = "hyperkit"
        /\ procs' = [procs EXCEPT ![p] = "none"]
        /\ pending' = pending \ {p}
        /\ scen' = IF scen = 4 THEN 4 ELSE 0
        /\ UNCHANGED <<stateFile, nextPid, IPAddress, store, last>>

\* The hypervisor exits on its own (guest shutdown, crash).
HypervisorExits ==
    \E p \in Pids :
        /\ procs[p] = "hyperkit"
        /\ p \notin pending
        /\ procs' = [procs EXCEPT ![p] = "none"]
        /\ scen' = 0
        /\ UNCHANGED <<stateFile, pending, nextPid, IPAddress, store, last>>

\* The OS reuses the identifier the state file holds, of a hypervisor that
\* has exited, for a process of another user, which the driver may not
\* signal.
PidReused ==
    \E p \in Pids :
        /\ p = getPid(stateFile)
        /\ procs[p] = "none"
        /\ procs' = [procs EXCEPT ![p] = "foreign"]
        /\ scen' = 0
        /\ UNCHANGED <<stateFile, pending, nextPid, IPAddress, store, last>>

\* That process exits again.
ForeignExits ==
    \E p \in Pids :
        /\ procs[p] = "foreign"
        /\ procs' = [procs EXCEPT ![p] = "none"]
        /\ scen' = 0
        /\ UNCHANGED <<stateFile, pending, nextPid, IPAddress, store, last>>

\* ------------------------------------------------------------------ Start
\* Mutant: the lookup error is returned unwrapped.
getIP_plain(found) == IF found THEN "nil" ELSE "notfound"

\* The closure getIP of Start: a failed lookup is wrapped as retriable.
getIP(found) == IF found THEN "nil" ELSE "retriable"

\* commonutil.RetryAfter over getIP, for a lease that appears at poll
\* number hit: up to attempts polls, a wait between two polls, and a
\* non-retriable error ends the loop at once.  i polls have been made.
RECURSIVE RetryFrom(_, _, _)
RetryFrom(i, attempts, hit) ==
    IF i >= attempts
    THEN [err |-> "exhausted", lookups |-> i,
          waits |-> IF i = 0 THEN 0 ELSE i - 1]
    ELSE LET e == getIP(i + 1 >= hit)
         IN  IF e = "nil"
             THEN [err |-> "nil", lookups |-> i + 1, waits |-> i]
             ELSE IF e # "retriable"
             THEN [err |-> e, lookups |-> i + 1, waits |-> i]
             ELSE RetryFrom(i + 1, attempts, hit)

RetryAfter(attempts, hit) == RetryFrom(0, attempts, hit)

\* Mutant: the image is created on every Start.
needsDisk_always(exists) == TRUE

\* os.Stat(diskPath) reports that the image does not exist.
needsDisk(exists) == ~exists

\* What the collaborators of one Start call do: the step that fails (or
\* "none"), whether a failed createDiskImage leaves a file behind, the poll
\* at which the lease appears, and the address the lease holds.
StartInputs ==
    {[fail |-> "disk", leaves |-> l, hit |-> 1, addr |-> 1] : l \in BOOLEAN}
    \cup {[fail |-> f, leaves |-> FALSE, hit |-> 1, addr |-> 1] :
            f \in {"perm", "new", "mac", "launch"}}
    \cup {[fail |-> "none", leaves |-> FALSE, hit |-> h, addr |-> a] :
            h \in Hits, a \in Addrs}

\* The input can happen in the current state: a disk step fails only if it
\* runs, and the OS has an identifier left for a launch.
Feasible(in) ==
    /\ in.fail \in {"disk", "perm"} => needsDisk(diskExists)
    /\ in.fail = "none" => nextPid <= MaxPid

\* Mutant: the error of h.Start is not checked.
Failed_ignoreLaunch(in, s) == in.fail = s /\ s # "launch"

\* The step s of Start returned an error (`if err != nil { return err }`).
Failed(in, s) == in.fail = s

\* Mutant: Start clears the stored address when it begins.
AddressBeforeLookup_reset(a) == 0

\* The stored address while Start runs its steps before the lookup: no
\* statement there assigns d.IPAddress.
AddressBeforeLookup(a) == a

Bump(n) == IF n < 2 THEN n + 1 ELSE 2

\* Start, step by step; the result holds the error, the step reached, what
\* was called, and the new values of the state Start writes.
\* getIP assigns d.IPAddress on every poll, so a lookup that gives up
\* leaves the empty address of its last failed poll.
StartOutcome(in) ==
    LET nd == needsDisk(diskExists)
        r == RetryAfter(StartAttempts, in.hit)
        o == [err |-> "nil", step |-> "done", diskCreate |-> nd,
              permFix |-> nd, disk |-> TRUE,
              perms |-> IF nd THEN TRUE ELSE permsFixed,
              created |-> IF nd THEN Bump(diskCreated) ELSE diskCreated,
              launches |-> 0, pid |-> 0, file |-> stateFile,
              procs |-> procs, nextPid |-> nextPid,
              ip |-> AddressBeforeLookup(IPAddress),
              lookups |-> 0, waits |-> 0, hit |-> 0, addr |-> 0,
              fault |-> in.fail]
    IN  IF nd /\ Failed(in, "disk")
        THEN [o EXCEPT !.err = "disk", !.step = "disk", !.permFix = FALSE,
                       !.disk = in.leaves, !.perms = permsFixed,
                       !.created = diskCreated]
        ELSE IF nd /\ Failed(in, "perm")
        THEN [o EXCEPT !.err = "perm", !.step = "perm", !.perms = permsFixed]
        ELSE IF Failed(in, "new")
        THEN [o EXCEPT !.err = "new", !.step = "new"]
        ELSE IF Failed(in, "mac")
        THEN [o EXCEPT !.err = "mac", !.step = "mac"]
        ELSE IF Failed(in, "launch")
        THEN [o EXCEPT !.err = "launch", !.step = "launch"]
        ELSE [o EXCEPT !.err = IF r.err = "nil" THEN "nil" ELSE "noip",
                       !.step = IF r.err = "nil" THEN "done" ELSE "lookup",
                       !.launches = 1, !.pid = nextPid,
                       !.file = PidFile(nextPid),
                       !.procs = [procs EXCEPT ![nextPid] = "hyperkit"],
                       !.nextPid = nextPid + 1,
                       !.ip = IF r.err = "nil" THEN in.addr ELSE 0,
                       !.lookups = r.lookups, !.waits = r.waits,
                       !.hit = in.hit,
                       !.addr = IF r.err = "nil" THEN in.addr ELSE 0]

StartWrites(o) ==
    /\ stateFile' = o.file
    /\ procs' = o.procs
    /\ nextPid' = o.nextPid
    /\ IPAddress' = o.ip
    /\ diskExists' = o.disk
    /\ permsFixed' = o.perms
    /\ diskCreated' = o.created

StartRecord(rec, o) ==
    [ReadsDisk(rec) EXCEPT !.ret = o.err, !.startErr = o.err,
                !.startRan = TRUE,
                !.step = o.step, !.hit = o.hit, !.addr = o.addr,
                !.fault = o.fault,
                !.diskCreate = o.diskCreate, !.permFix = o.permFix,
                !.launches = o.launches, !.launchedPid = o.pid,
                !.lookups = o.lookups, !.waits = o.waits]

Start ==
    \E in \in StartInputs :
        /\ Feasible(in)
        /\ LET o == StartOutcome(in)
           IN  /\ StartWrites(o)
               /\ last' = StartRecord(Call("Start"), o)
        /\ scen' = 0
        /\ UNCHANGED <<pending, sshKey, iso, artifacts>>

\* --------------------------------------------------------- driver methods
GetState ==
    LET r == GetStateOf(stateFile, procs)
    IN  /\ last' = [ReadsFile(Call("GetState")) EXCEPT !.st = r.st, !.stErr = r.err,
                                            !.ret = r.err]
        /\ scen' = IF scen \in {1, 4} THEN scen + 1 ELSE 0
        /\ UNCHANGED <<stateFile, procs, pending, nextPid, IPAddress, store>>

GetURL ==
    LET r == GetURLOf(IPAddress)
    IN  /\ last' = [ReadsIP(Call("GetURL")) EXCEPT !.url = r.url, !.ret = r.err]
        /\ scen' = IF scen = 2 THEN 3 ELSE 0
        /\ UNCHANGED <<stateFile, procs, pending, nextPid, IPAddress, store>>

GetSSHHostname ==
    LET r == GetSSHHostnameOf(IPAddress)
    IN  /\ last' = [ReadsIP(Call("GetSSHHostname")) EXCEPT !.host = r.host,
                                                           !.ret = r.err]
        /\ scen' = 0
        /\ UNCHANGED <<stateFile, procs, pending, nextPid, IPAddress, store>>

\* Mutant: Stop sends the forced kill.
StopSignal_kill == "SIGKILL"

\* Mutant: Kill sends the graceful stop.
KillSignal_term == "SIGTERM"

\* Stop sends syscall.SIGTERM, Kill sends syscall.SIGKILL.
StopSignal == "SIGTERM"
KillSignal == "SIGKILL"

Delivered(r) == IF r.to # 0 THEN pending \cup {r.to} ELSE pending

Stop ==
    LET r == sendSignal(StopSignal, stateFile, procs)
    IN  /\ last' = [ReadsFile(Call("Stop")) EXCEPT !.ret = r.err, !.kills = r.kills,
                                        !.stopRan = TRUE, !.stopErr = r.err]
        /\ pending' = Delivered(r)
        /\ scen' = IF scen = 3 THEN 4 ELSE 0
        /\ UNCHANGED <<stateFile, procs, nextPid, IPAddress, store>>

Kill ==
    LET r == sendSignal(KillSignal, stateFile, procs)
    IN  /\ last' = [ReadsFile(Call("Kill")) EXCEPT !.ret = r.err, !.kills = r.kills]
        /\ pending' = Delivered(r)
        /\ scen' = 0
        /\ UNCHANGED <<stateFile, procs, nextPid, IPAddress, store>>

\* Mutant: the error of Stop is ignored.
RestartGoesOn_always(err) == TRUE

\* Restart: the loop over {d.Stop, d.Start} goes on after a nil error.
RestartGoesOn(err) == err = "nil"

Restart ==
    LET r == sendSignal(StopSignal, stateFile, procs)
        rec == [ReadsFile(Call("Restart")) EXCEPT !.ret = r.err, !.kills = r.kills,
                                       !.stopRan = TRUE, !.stopErr = r.err]
    IN  /\ pending' = Delivered(r)
        /\ scen' = 0
        /\ IF RestartGoesOn(r.err)
           THEN \E in \in StartInputs :
                    /\ Feasible(in)
                    /\ LET o == StartOutcome(in)
                       IN  /\ StartWrites(o)
                           /\ last' = StartRecord(rec, o)
                    /\ UNCHANGED <<sshKey, iso, artifacts>>
           ELSE /\ last' = rec
                /\ UNCHANGED <<stateFile, procs, nextPid, IPAddress, store>>

\* Mutant: Stop is issued whatever the probe returned.
RemoveStops_always(s) == TRUE

\* Remove: Stop is issued for the state the probe returned.
RemoveStops(s) == s.st = "Running"

\* raced: the hypervisor exits on its own between the probe and the signal.
Remove ==
    \E raced \in BOOLEAN :
        LET s == GetStateOf(stateFile, procs)
            pt == IF raced
                  THEN [procs EXCEPT ![getPid(stateFile)] = "none"]
                  ELSE procs
            r == sendSignal(StopSignal, stateFile, pt)
            rec == [ReadsFile(Call("Remove")) EXCEPT !.st = s.st, !.stErr = s.err,
                                          !.raced = raced]
        IN  /\ raced => s.st = "Running" /\ getPid(stateFile) \notin pending
            /\ IF RemoveStops(s)
               THEN /\ last' = [rec EXCEPT !.ret = r.err, !.kills = r.kills,
                                           !.stopRan = TRUE,
                                           !.stopErr = r.err]
                    /\ pending' = Delivered(r)
                    /\ procs' = pt
               ELSE /\ last' = rec
                    /\ UNCHANGED <<pending, procs>>
            /\ scen' = IF scen = 5 THEN 6 ELSE 0
            /\ UNCHANGED <<stateFile, nextPid, IPAddress, store>>

\* The step of Create that fails, or "none".
CreateSteps == <<"key", "iso", "bzimage", "initrd", "isolinux.cfg">>
CreateFails == {"none"} \cup {CreateSteps[i] : i \in 1..Len(CreateSteps)}

Max(a, b) == IF a > b THEN a ELSE b

\* Mutant: Create goes on to its next step after an error.
CreateGoesOn_always(err) == TRUE

\* Create: each step is followed by the next one only when it returned nil.
CreateGoesOn(err) == err = "nil"

\* The steps of Create from step i on, when the step cf fails: the steps
\* called in order, those that completed, and the error returned.
RECURSIVE CreateFrom(_, _)
CreateFrom(i, cf) ==
    IF i > Len(CreateSteps)
    THEN [calls |-> <<>>, done |-> {}, err |-> "nil"]
    ELSE LET name == CreateSteps[i]
             e == IF name = cf THEN cf ELSE "nil"
             rest == CreateFrom(i + 1, cf)
         IN  IF CreateGoesOn(e)
             THEN [calls |-> <<name>> \o rest.calls,
                   done |-> (IF e = "nil" THEN {name} ELSE {}) \cup rest.done,
                   err |-> rest.err]
             ELSE [calls |-> <<name>>, done |-> {}, err |-> e]

Extracted == {"bzimage", "initrd", "isolinux.cfg"}

Create ==
    \E cf \in CreateFails :
        LET c == CreateFrom(1, cf)
            rec == [Call("Create") EXCEPT !.ret = c.err, !.step = cf,
                                          !.calls = c.calls, !.cfault = cf]
            pristine == last.op = "none" /\ stateFile = NoFile
        IN  /\ sshKey' = (sshKey \/ "key" \in c.done)
            /\ iso' = (iso \/ "iso" \in c.done)
            /\ artifacts' = Max(artifacts, Cardinality(c.done \cap Extracted))
            /\ UNCHANGED pending
            /\ IF c.err = "nil"
               THEN \E in \in StartInputs :
                        /\ Feasible(in)
                        /\ LET o == StartOutcome(in)
                           IN  /\ StartWrites(o)
                               /\ last' = StartRecord(rec, o)
                               /\ scen' = IF pristine /\ o.err = "nil"
                                          THEN 1 ELSE 0
               ELSE /\ last' = rec
                    /\ scen' = 0
                    /\ UNCHANGED <<stateFile, procs, nextPid, IPAddress,
                                   diskExists, permsFixed, diskCreated>>

Next ==
    \/ HypervisorActsOnSignal
    \/ HypervisorExits
    \/ PidReused
    \/ ForeignExits
    \/ Create
    \/ Start
    \/ Stop
    \/ Kill
    \/ Restart
    \/ Remove
    \/ GetState
    \/ GetURL
    \/ GetSSHHostname

Spec == Init /\ [][Next]_vars

\* A hypervisor that received SIGTERM or SIGKILL does exit.
FairSpec == Spec /\ WF_vars(HypervisorActsOnSignal)

\* ================================================================= claims
\* C1: every GetState call returns Stopped with no error when the state
\* file is absent or unreadable or names no process, and returns Running
\* exactly when the file holds an identifier whose zero-signal probe
\* succeeds; the file and the process table are read at the call.
C1_GetStateFollowsFileAndProcesses ==
    last.op = "GetState" =>
        /\ (last.preFile.kind # "ok" \/ last.preNamed = "none")
              => (last.st = "Stopped" /\ last.stErr = "nil")
        /\ (last.st = "Running")
              <=> (last.preFile.kind = "ok" /\ last.preNamed = "hyperkit")

\* C1 witness: GetState reports Stopped for a state file that still holds
\* the identifier of a hypervisor that has exited.
C1_Witness ==
    /\ last.op = "GetState"
    /\ last.st = "Stopped"
    /\ last.preFile.kind = "ok"
    /\ last.preNamed = "none"

\* C2: when the zero-signal probe fails for a reason other than "no such
\* process", GetState returns the Error state and an error.
C2_ProbeFailureIsError ==
    (last.op = "GetState" /\ last.preNamed = "foreign")
        => (last.st = "Error" /\ last.stErr # "nil")

\* C3: Stop and Kill on a Stopped VM return success and make no kill(2)
\* call.
C3_SignalStoppedIsNoOp ==
    (last.op \in {"Stop", "Kill"} /\ last.preNamed \in {"nofile", "none"})
        => (last.ret = "nil" /\ last.kills = <<>>)

\* C4: Restart runs Stop and then Start; when Stop fails Restart returns
\* that error and no step of Start runs; Start runs only after Stop
\* returned success; Restart succeeds exactly when both succeed.
C4_RestartStopThenStart ==
    last.op = "Restart" =>
        /\ last.stopRan
        /\ last.stopErr # "nil" =>
              /\ last.ret = last.stopErr
              /\ ~last.startRan
              /\ ~last.diskCreate /\ ~last.permFix
              /\ last.launches = 0
              /\ last.lookups = 0
        /\ last.startRan => last.stopErr = "nil"
        /\ (last.ret = "nil")
              <=> (last.stopErr = "nil" /\ last.startRan
                   /\ last.startErr = "nil")

\* C4 witness: a Restart whose Stop failed while no disk image existed.
C4_Witness ==
    /\ last.op = "Restart"
    /\ last.stopErr # "nil"
    /\ ~diskExists

\* C5: Remove returns an error only when its probe reported Running and
\* the Stop it issued failed, and then it returns that error; when the
\* probe yields an error or the Error state it sends no signal and
\* returns success.
C5_RemoveFailsOnlyOnStop ==
    last.op = "Remove" =>
        /\ last.ret # "nil" =>
              (last.st = "Running" /\ last.stopRan
               /\ last.ret = last.stopErr)
        /\ (last.stErr # "nil" \/ last.st = "Error") =>
              (last.ret = "nil" /\ last.kills = <<>> /\ ~last.stopRan)

\* C5 witness: Remove returned the error of the Stop it issued.
C5_Witness ==
    /\ last.op = "Remove"
    /\ last.ret # "nil"
    /\ last.stopRan

\* C6: after a launch the lease lookup is polled with a budget of 30: a
\* lease that appears at poll k <= 30 costs k lookups and k-1 waits, its
\* address is stored and Start succeeds; a lease that does not appear
\* costs 30 lookups and Start fails.
C6_LookupBudget ==
    last.launches = 1 =>
        IF last.hit <= 30
        THEN /\ last.lookups = last.hit
             /\ last.waits = last.hit - 1
             /\ last.startErr = "nil"
             /\ last.ret = "nil"
             /\ last.addr # 0
             /\ IPAddress = last.addr
        ELSE /\ last.lookups = 30
             /\ last.startErr # "nil"
             /\ last.ret # "nil"

\* C6 witness: the lease appeared at the last poll of the budget.
C6_Witness ==
    /\ last.op = "Start"
    /\ last.hit = 30
    /\ last.lookups = 30
    /\ last.waits = 29
    /\ last.ret = "nil"

\* C7: a Start that finds the disk image neither creates an image nor
\* fixes permissions, and the image is created at most once.
C7_DiskCreatedOnce ==
    /\ diskCreated <= 1
    /\ last.startRan =>
          /\ last.preDisk => (~last.diskCreate /\ ~last.permFix)
          /\ last.diskCreate => ~last.preDisk
          /\ last.permFix => ~last.preDisk

\* C7 witness: a Start that launched a hypervisor on an image that an
\* earlier call had created.
C7_Witness ==
    /\ last.startRan
    /\ last.preDisk
    /\ last.launches = 1
    /\ diskCreated = 1

\* The end-to-end scenario up to Stop: Create provisions and starts,
\* GetState returns Running, GetURL returns the URL, Stop succeeds.
ScenarioHead ==
    /\ scen = 1 =>
          /\ last.op = "Create" /\ last.ret = "nil"
          /\ sshKey /\ iso /\ artifacts = 3 /\ diskExists
          /\ last.launches = 1
          /\ IPAddress = last.addr /\ last.addr # 0
    /\ scen = 2 => (last.op = "GetState" /\ last.st = "Running"
                    /\ last.stErr = "nil")
    /\ scen = 3 =>
          /\ last.op = "GetURL" /\ last.ret = "nil"
          /\ last.url = [scheme |-> "tcp", host |-> IPAddress,
                          port |-> 2376]
          /\ IPAddress # 0
    /\ scen = 4 => (last.op = "Stop" /\ last.ret = "nil")

\* C8 as stated: in the end-to-end scenario the GetState that follows Stop
\* returns Stopped, and the Remove after it sends no signal and succeeds.
C8_Original ==
    /\ ScenarioHead
    /\ scen = 5 => (last.op = "GetState" /\ last.st = "Stopped")
    /\ scen = 6 => (last.op = "Remove" /\ last.ret = "nil"
                    /\ last.kills = <<>>)

\* C8 amended: in the end-to-end scenario, once the hypervisor has acted on
\* the SIGTERM and exited, the GetState that follows Stop returns Stopped
\* and the Remove after it sends no signal and succeeds.
C8_Amended ==
    /\ ScenarioHead
    /\ (scen = 5 /\ last.preNamed = "none") =>
          (last.op = "GetState" /\ last.st = "Stopped"
           /\ last.stErr = "nil")
    /\ (scen = 6 /\ last.preNamed = "none") =>
          (last.op = "Remove" /\ last.ret = "nil" /\ last.kills = <<>>
           /\ ~last.stopRan)

\* C8 witness: the scenario ran to its end with the hypervisor exited.
C8_Witness ==
    /\ scen = 6
    /\ last.op = "Remove"
    /\ last.preNamed = "none"
    /\ last.ret = "nil"

\* C9: a Start whose launch succeeded and whose lookup never resolved
\* fails after 30 lookups and leaves the launched hypervisor alone (no
\* signal, the state file names it); a GetState made next returns Running
\* if that hypervisor is alive.
C9_FailedLookupLeavesHypervisor ==
    /\ (last.launches = 1 /\ last.hit > 30) =>
          /\ last.ret # "nil"
          /\ last.step = "lookup"
          /\ last.lookups = 30
          /\ stateFile = PidFile(last.launchedPid)
          /\ last.launchedPid \notin pending
          /\ \A i \in 1..Len(last.kills) :
                 last.kills[i][1] # last.launchedPid
    /\ (last.op = "GetState" /\ last.prev = "noip-alive") =>
          (last.st = "Running" /\ last.stErr = "nil")

\* C9 witness: GetState returned Running right after such a Start.
C9_Witness ==
    /\ last.op = "GetState"
    /\ last.prev = "noip-alive"
    /\ last.st = "Running"

\* C10: GetURL fails when the stored address is empty and otherwise
\* returns tcp://<stored address>:2376; no URL has an empty host.
C10_GetURLNeedsAddress ==
    last.op = "GetURL" =>
        IF last.preIP = 0
        THEN last.ret # "nil" /\ last.url = NoURL
        ELSE /\ last.ret = "nil"
             /\ last.url = [scheme |-> "tcp", host |-> last.preIP,
                             port |-> 2376]

\* C10 witness: GetURL failed on a driver with no stored address.
C10_Witness ==
    /\ last.op = "GetURL"
    /\ last.preIP = 0
    /\ last.ret # "nil"

\* C11: GetSSHHostname never returns an error and returns the stored
\* address as it is, the empty string when none has been resolved.
C11_GetSSHHostnameVerbatim ==
    last.op = "GetSSHHostname" =>
        /\ last.ret = "nil"
        /\ last.host = last.preIP
        /\ last.host = IPAddress

\* C11 witness: GetSSHHostname returned the empty string with no error.
C11_Witness ==
    /\ last.op = "GetSSHHostname"
    /\ last.preIP = 0
    /\ last.host = 0
    /\ last.ret = "nil"

\* The steps of Create called before the one that failed.
Earlier(rec) ==
    IF rec.startRan THEN {rec.calls[i] : i \in 1..Len(rec.calls)}
    ELSE {rec.calls[i] : i \in 1..(Len(rec.calls) - 1)}

\* C12: every Create calls key generation, image copy, the extraction of
\* bzimage, initrd and isolinux.cfg, then Start, in this order, up to the
\* first step that fails; it returns that step's error, runs no later
\* step and launches nothing, and what the store held before the call and
\* what the earlier steps produced is still there.
C12_CreateFailsFast ==
    [][(last'.op = "Create" /\ last' # last) =>
        /\ \E n \in 1..Len(CreateSteps) :
               last'.calls = SubSeq(CreateSteps, 1, n)
        /\ last'.cfault # "none" =>
               /\ last'.calls[Len(last'.calls)] = last'.cfault
               /\ last'.ret = last'.cfault
               /\ ~last'.startRan
               /\ last'.launches = 0 /\ last'.lookups = 0
               /\ ~last'.diskCreate
               /\ procs' = procs /\ stateFile' = stateFile
               /\ diskExists' = diskExists
        /\ last'.cfault = "none" =>
               /\ last'.calls = CreateSteps
               /\ last'.startRan
               /\ last'.ret = last'.startErr
        /\ "key" \in Earlier(last') => sshKey'
        /\ "iso" \in Earlier(last') => iso'
        /\ artifacts' >= Cardinality(Earlier(last') \cap Extracted)
        /\ sshKey => sshKey'
        /\ iso => iso'
        /\ artifacts' >= artifacts
        /\ (diskExists /\ ~last'.diskCreate) => diskExists'
      ]_vars

\* C12 witness: a Create that failed extracting initrd, with the key, the
\* boot image and bzimage left in the store and nothing launched.
C12_Witness ==
    /\ last.op = "Create"
    /\ last.cfault = "initrd"
    /\ last.calls = <<"key", "iso", "bzimage", "initrd">>
    /\ sshKey /\ iso /\ artifacts = 1
    /\ nextPid = 1

\* The hypervisor processes that are alive.
Alive == {p \in Pids : procs[p] = "hyperkit"}

\* C13: at most one hypervisor launched by the driver is alive at a time.
C13_OneHypervisor == Cardinality(Alive) <= 1

C15_RemoveStopsOnlyRunning ==
    [][(last'.op = "Remove" /\ last' # last) =>
        /\ (last'.st = "Running") <=> (last'.preNamed = "hyperkit")
        /\ (last'.kills # <<>>) <=> (last'.st = "Running")
        /\ last'.stopRan <=> (last'.st = "Running")
        /\ last'.st = "Running" =>
              last'.kills = << <<stateFile.pid, "SIGTERM">> >>
        /\ last'.st # "Running" =>
              /\ last'.ret = "nil"
              /\ procs' = procs
              /\ pending' = pending
        /\ stateFile' = stateFile
        /\ store' = store
        /\ IPAddress' = IPAddress
      ]_vars

\* C15 witness: Remove sent SIGTERM to a running hypervisor.
C15_Witness ==
    /\ last.op = "Remove"
    /\ last.st = "Running"
    /\ last.kills = << <<last.preFile.pid, "SIGTERM">> >>
    /\ last.ret = "nil"
    /\ last.preFile.pid \in pending

\* C16: a Start launches at most one hypervisor; when disk creation, the
\* permission fix, the hypervisor configuration, the address derivation or
\* the launch fails, Start returns that error at that step, launches
\* nothing and looks up no lease; lookups happen only after a launch.
C16_StartFailsFast ==
    last.startRan =>
        /\ last.launches <= 1
        /\ last.fault # "none" =>
              /\ last.startErr = last.fault
              /\ last.ret = last.fault
              /\ last.step = last.fault
              /\ last.launches = 0
              /\ last.launchedPid = 0
              /\ last.lookups = 0 /\ last.waits = 0
              /\ last.fault = "disk" => ~last.permFix
        /\ last.lookups > 0 => last.launches = 1

\* C16 witness: a Start whose launch failed returned at once.
C16_Witness ==
    /\ last.op = "Start"
    /\ last.fault = "launch"
    /\ last.ret = "launch"
    /\ last.lookups = 0

\* C17: no hypervisor is launched on a created disk image whose
\* permissions have not been fixed.
C17_FixBeforeLaunch ==
    (diskCreated >= 1 /\ last.launches = 1) => permsFixed

\* C19: the stored address changes only in a call that reached the lease
\* lookup of Start; Stop, Kill, Remove, GetState, GetURL and GetSSHHostname
\* leave it unchanged, and GetURL and GetSSHHostname return it whether or
\* not the VM still runs.
C19_AddressWrittenByLookup ==
    [][/\ (IPAddress' # IPAddress) =>
            /\ last' # last
            /\ last'.startRan
            /\ last'.launches = 1
            /\ last'.lookups > 0
       /\ (last' # last
           /\ last'.op \in {"Stop", "Kill", "Remove", "GetState", "GetURL",
                             "GetSSHHostname"}) => IPAddress' = IPAddress
       /\ (last' # last /\ last'.op = "GetURL" /\ IPAddress # 0) =>
            (last'.ret = "nil" /\ last'.url.host = IPAddress)
       /\ (last' # last /\ last'.op = "GetSSHHostname") =>
            last'.host = IPAddress
      ]_vars

\* C19 witness: Stop was delivered, the hypervisor has exited, and the
\* address resolved by the Start that launched it is still stored.
C19_Witness ==
    /\ last.op = "Stop"
    /\ last.ret = "nil"
    /\ procs[last.preFile.pid] = "none"
    /\ stateFile = last.preFile
    /\ IPAddress # 0

\* What Stop and Kill do with the process the state file names.
SignalSent ==
    /\ (last.op = "Stop" /\ last.preNamed = "hyperkit") =>
          /\ last.kills = << <<last.preFile.pid, "SIGTERM">> >>
          /\ last.ret = "nil"
    /\ (last.op = "Kill" /\ last.preNamed = "hyperkit") =>
          /\ last.kills = << <<last.preFile.pid, "SIGKILL">> >>
          /\ last.ret = "nil"
    /\ (last.op \in {"Stop", "Kill"} /\ last.preNamed = "foreign") =>
          /\ Len(last.kills) = 1
          /\ last.ret = "EPERM"
    /\ (last.op \in {"Stop", "Kill"} /\ last.ret = "nil") =>
          (last.preFile.pid \in pending
           \/ procs[last.preFile.pid] # "hyperkit")

\* GetState would return Stopped now.
ProbesStopped == GetStateOf(stateFile, procs).st = "Stopped"

====
